---- MODULE Spec2Model ----
(***************************************************************************)
(* OutfitCast (src/OutfitCast.py): a single-file Streamlit app that maps a *)
(* selected state capital to a deterministic synthetic weather reading, an *)
(* outfit recommendation and a six-hour forecast strip.                    *)
(*                                                                         *)
(* Conventions of this model                                               *)
(*  - Text that the code edits (garment descriptions, hour labels) is a    *)
(*    sequence of fragments; concatenation is \o, and strip/lstrip remove  *)
(*    fragments from the ends.  The fragments "," and " " are the only     *)
(*    ones made of the characters that strip(", ") removes.                *)
(*  - The source's non-ASCII characters are written in ASCII: the em dash  *)
(*    of the capital names is "--", the arrow of the notes is "->", and an *)
(*    emoji is written by its name.                                        *)
(*  - A seed is an unsigned 32-bit number, kept as its two 16-bit halves   *)
(*    [hi, lo] because the model checker's integers are signed 32-bit.     *)
(*  - The wall clock is the hour of the day, 0..23; the labels the code    *)
(*    prints depend on nothing else of datetime.now().                     *)
(***************************************************************************)
EXTENDS Integers, Sequences, FiniteSets, TLC

VARIABLES
  page,                \* st.session_state.page
  selected_city,       \* st.session_state.selected_city
  forecast_generated,  \* st.session_state.forecast_generated
  light_mode,          \* st.session_state.light_mode
  last_result,         \* st.session_state.last_result
  warning,             \* whether the last script run showed st.warning
  now,                 \* the wall clock (hour of the day)
  inp,                 \* the argument of a function called on its own
  out                  \* what that call returned

vars == << page, selected_city, forecast_generated, light_mode, last_result,
           warning, now, inp, out >>

session == << page, selected_city, forecast_generated, light_mode, last_result,
              warning >>

(***************************************************************************)
(* Bounds of the model.                                                    *)
(***************************************************************************)
\* The session specification offers the first NumCities entries of CAPITALS.
NumCities == 4
\* The seed specification draws every seed whose low half is at most MaxSeedLo.
MaxSeedLo == 2047
\* Readings are drawn within Margin of every threshold the rules test.
Margin == 1

(***************************************************************************)
(* Constants and static data.                                              *)
(***************************************************************************)
None == "None"

HoursPerDay == 24

NumSlots == 6

CAPITALS ==
  << "Andhra Pradesh -- Amaravati",
     "Arunachal Pradesh -- Itanagar",
     "Assam -- Dispur",
     "Bihar -- Patna",
     "Chhattisgarh -- Raipur",
     "Goa -- Panaji",
     "Gujarat -- Gandhinagar",
     "Haryana -- Chandigarh",
     "Himachal Pradesh -- Shimla",
     "Jharkhand -- Ranchi",
     "Karnataka -- Bengaluru",
     "Kerala -- Thiruvananthapuram",
     "Madhya Pradesh -- Bhopal",
     "Maharashtra -- Mumbai",
     "Manipur -- Imphal",
     "Meghalaya -- Shillong",
     "Mizoram -- Aizawl",
     "Nagaland -- Kohima",
     "Odisha -- Bhubaneswar",
     "Punjab -- Chandigarh",
     "Rajasthan -- Jaipur",
     "Sikkim -- Gangtok",
     "Tamil Nadu -- Chennai",
     "Telangana -- Hyderabad",
     "Tripura -- Agartala",
     "Uttar Pradesh -- Lucknow",
     "Uttarakhand -- Dehradun",
     "West Bengal -- Kolkata",
     "Andaman and Nicobar Islands -- Port Blair",
     "Chandigarh -- Chandigarh",
     "Dadra and Nagar Haveli and Daman and Diu -- Daman",
     "Delhi (NCT) -- New Delhi",
     "Jammu & Kashmir -- Srinagar",
     "Ladakh -- Leh",
     "Lakshadweep -- Kavaratti",
     "Puducherry -- Puducherry" >>

\* hashlib.sha256(city.encode("utf-8")).hexdigest()[:8] of each entry of
\* CAPITALS (with its em dash), as hexadecimal digit values.
SHA256_HEX8 ==
  <<
     <<13, 2,11, 9,14, 2, 0,13>>,  \* d2b9e20d
     << 3,15, 7, 5,14, 2, 5, 3>>,  \* 3f75e253
     <<13,13, 5, 0, 8,11,13,14>>,  \* dd508bde
     << 4, 5, 3, 4,14,11,10,12>>,  \* 4534ebac
     <<13, 3, 6, 9, 6, 9, 8, 5>>,  \* d3696985
     <<11, 3, 2,10, 3, 6, 8,10>>,  \* b32a368a
     << 8,11, 0, 4,14, 6, 7,14>>,  \* 8b04e67e
     <<15, 3,15,12, 8, 1, 8, 6>>,  \* f3fc8186
     <<15,11, 9, 9,13,10,10,10>>,  \* fb99daaa
     <<14,13, 3, 5,11, 6,11, 4>>,  \* ed35b6b4
     << 2, 5, 9, 4, 8, 5, 2, 8>>,  \* 25948528
     << 1, 9, 9, 1, 1, 2, 9, 2>>,  \* 19911292
     <<12,12,14, 5, 5, 9,11,11>>,  \* cce559bb
     << 0, 9,10, 3,10,13, 4, 5>>,  \* 09a3ad45
     << 5, 4, 1, 8, 2, 7, 0, 0>>,  \* 54182700
     << 9,10,15,13,15,12, 5,13>>,  \* 9afdfc5d
     <<11,13, 5, 9, 6, 9, 7, 3>>,  \* bd596973
     << 0,10, 4,15,14, 6, 6, 0>>,  \* 0a4fe660
     << 6,11,10, 4, 0, 8,10,15>>,  \* 6ba408af
     << 7,11, 5,14, 1, 3, 4, 3>>,  \* 7b5e1343
     << 7,13, 7, 3, 9,15, 5,12>>,  \* 7d739f5c
     << 7, 6, 0, 3,10, 2,11,10>>,  \* 7603a2ba
     <<13,12, 5, 6, 7, 6, 2,12>>,  \* dc56762c
     << 6,13, 5, 8, 4, 7,11, 8>>,  \* 6d5847b8
     << 8, 2, 3, 5, 7,11, 6,11>>,  \* 82357b6b
     <<12,14, 8,12, 0, 3, 3, 8>>,  \* ce8c0338
     <<12,12,10, 0, 6, 8, 8, 6>>,  \* cca06886
     << 3, 6, 4,10,10, 6, 0, 2>>,  \* 364aa602
     << 2,11, 1, 4,10, 9, 7,10>>,  \* 2b14a97a
     <<12, 9,11, 0,13, 2, 0, 9>>,  \* c9b0d209
     <<15,11, 8, 1, 5,10,11, 1>>,  \* fb815ab1
     << 1, 8,14, 9,11,15, 5,14>>,  \* 18e9bf5e
     << 0, 1,13,15, 3, 8, 3, 0>>,  \* 01df3830
     << 4, 2, 9, 0, 4,11, 4,14>>,  \* 42904b4e
     <<15, 4, 8, 8, 4, 8, 8, 6>>,  \* f4884886
     << 3,13, 8, 9,15,10, 4, 4>>   \* 3d89fa44
  >>

WEATHER_EMOJI ==
  [ clear  |-> "sun",
    partly |-> "sun behind cloud",
    cloudy |-> "cloud",
    rain   |-> "cloud with rain",
    storm  |-> "cloud with lightning and rain",
    snow   |-> "snowflake",
    mist   |-> "fog" ]

\* The fallback of WEATHER_EMOJI.get(base_condition, ...).
DEFAULT_EMOJI == "sun behind small cloud"

Conditions == {"clear", "partly", "cloudy", "rain", "storm", "snow", "mist"}

Cities == { CAPITALS[i] : i \in 1..NumCities }

(***************************************************************************)
(* init_session_state                                                      *)
(***************************************************************************)
NoResult == [ none |-> TRUE ]

init_session_state ==
  /\ page = "landing"
  /\ selected_city = None
  /\ forecast_generated = FALSE
  /\ light_mode = FALSE
  /\ last_result = NoResult

(***************************************************************************)
(* city_to_seed                                                            *)
(***************************************************************************)
Pow2(k) == 2 ^ k

\* int(digits, 16) of a string of at most four hexadecimal digits.
HexValue(digits) ==
  LET RECURSIVE go(_, _)
      go(i, acc) == IF i > Len(digits) THEN acc
                    ELSE go(i + 1, acc * 16 + digits[i])
  IN  go(1, 0)

\* int(h[:8], 16): the unsigned 32-bit value of eight hexadecimal digits.
int_hex8(h) ==
  [ hi |-> HexValue(SubSeq(h, 1, 4)), lo |-> HexValue(SubSeq(h, 5, 8)) ]

sha256_hexdigest(city) ==
  SHA256_HEX8[CHOOSE i \in 1..Len(CAPITALS) : CAPITALS[i] = city]

city_to_seed(city) ==
  IF city = None \/ city = ""
  THEN [ hi |-> 0, lo |-> 0 ]
  ELSE int_hex8(sha256_hexdigest(city))

(***************************************************************************)
(* synthesize_weather                                                      *)
(***************************************************************************)
\* seed % m, for the seed hi * 2^16 + lo.
SeedMod(seed, m) == ((seed.hi % m) * (Pow2(16) % m) + seed.lo) % m

\* (seed >> k) % m, for 2 <= k <= 16.
SeedShiftMod(seed, k, m) ==
  (seed.hi * Pow2(16 - k) + (seed.lo \div Pow2(k))) % m

\* The base of 12 degrees left out: temperatures 0..25.
seed_temp_c_no_base(seed) == SeedMod(seed, 26)

seed_temp_c(seed) == 12 + SeedMod(seed, 26)

\* A modulus one too large: humidity up to 101.
seed_humidity_mod72(seed) == 30 + SeedShiftMod(seed, 3, 72)

seed_humidity(seed) == 30 + SeedShiftMod(seed, 3, 71)

seed_precip(seed) == SeedShiftMod(seed, 6, 101)

\* The wind taken from the window of the precipitation chance.
seed_wind_shift6(seed) == 5 + SeedShiftMod(seed, 6, 36)

seed_wind(seed) == 5 + SeedShiftMod(seed, 10, 36)

\* The first test written precip >= 60.
select_condition_ge60(temp_c, humidity, precip, wind) ==
  IF precip >= 60 THEN (IF wind > 25 THEN "storm" ELSE "rain")
  ELSE IF precip > 25 THEN (IF humidity > 60 THEN "rain" ELSE "partly")
  ELSE IF temp_c <= 5 THEN "snow"
  ELSE IF humidity > 80 /\ temp_c < 20 THEN "mist"
  ELSE IF temp_c >= 30 THEN "clear"
  ELSE IF temp_c >= 22 THEN "partly"
  ELSE "cloudy"

\* The "simple condition selection" of synthesize_weather.
select_condition(temp_c, humidity, precip, wind) ==
  IF precip > 60 THEN (IF wind > 25 THEN "storm" ELSE "rain")
  ELSE IF precip > 25 THEN (IF humidity > 60 THEN "rain" ELSE "partly")
  ELSE IF temp_c <= 5 THEN "snow"
  ELSE IF humidity > 80 /\ temp_c < 20 THEN "mist"
  ELSE IF temp_c >= 30 THEN "clear"
  ELSE IF temp_c >= 22 THEN "partly"
  ELSE "cloudy"

weather_from_seed(seed) ==
  LET temp_c   == seed_temp_c(seed)
      humidity == seed_humidity(seed)
      precip   == seed_precip(seed)
      wind     == seed_wind(seed)
  IN  [ temp_c        |-> temp_c,
        humidity      |-> humidity,
        precip_chance |-> precip,
        wind_kmh      |-> wind,
        condition     |-> select_condition(temp_c, humidity, precip, wind) ]

synthesize_weather(city) == weather_from_seed(city_to_seed(city))

(***************************************************************************)
(* generate_hourly_forecast                                                *)
(***************************************************************************)
DigitChars == << "0", "1", "2", "3", "4", "5", "6", "7", "8", "9" >>

\* The hour of the day of (clock + timedelta(hours=i)).
add_hours(clock, i) == (clock + i) % HoursPerDay

\* strftime("%I %p"): the zero-padded 12-hour hour, a space, AM or PM, as
\* a sequence of characters.
strftime_I_p(hour) ==
  LET h12 == IF hour % 12 = 0 THEN 12 ELSE hour % 12
  IN  << DigitChars[(h12 \div 10) + 1], DigitChars[(h12 % 10) + 1], " ",
         (IF hour < 12 THEN "A" ELSE "P"), "M" >>

\* str.lstrip("0")
RECURSIVE lstrip_zero(_)
lstrip_zero(s) ==
  IF s # << >> /\ Head(s) = "0" THEN lstrip_zero(Tail(s)) ELSE s

\* The label of the clock itself: timedelta(hours=i) left out.
hour_label_no_offset(clock, i) == lstrip_zero(strftime_I_p(clock))

hour_label(clock, i) == lstrip_zero(strftime_I_p(add_hours(clock, i)))

\* The rain symbol on every slot of a rainy or stormy base: the test of the
\* even slot left out.
hourly_emoji_every_slot(base_condition, i, seed_offset) ==
  LET cond_variation_index == (i + seed_offset) % 5
  IN  IF base_condition \in {"rain", "storm"}
        THEN WEATHER_EMOJI["rain"]
      ELSE IF base_condition = "clear"
        THEN (IF cond_variation_index < 3 THEN WEATHER_EMOJI["clear"]
                                          ELSE WEATHER_EMOJI["partly"])
      ELSE IF base_condition \in DOMAIN WEATHER_EMOJI
        THEN WEATHER_EMOJI[base_condition]
      ELSE DEFAULT_EMOJI

hourly_emoji(base_condition, i, seed_offset) ==
  LET cond_variation_index == (i + seed_offset) % 5
  IN  IF base_condition \in {"rain", "storm"} /\ i % 2 = 0
        THEN WEATHER_EMOJI["rain"]
      ELSE IF base_condition = "clear"
        THEN (IF cond_variation_index < 3 THEN WEATHER_EMOJI["clear"]
                                          ELSE WEATHER_EMOJI["partly"])
      ELSE IF base_condition = "partly" THEN WEATHER_EMOJI["partly"]
      ELSE IF base_condition = "cloudy" THEN WEATHER_EMOJI["cloudy"]
      ELSE IF base_condition = "mist" THEN WEATHER_EMOJI["mist"]
      ELSE IF base_condition = "snow" THEN WEATHER_EMOJI["snow"]
      ELSE IF base_condition \in DOMAIN WEATHER_EMOJI
        THEN WEATHER_EMOJI[base_condition]
      ELSE DEFAULT_EMOJI

\* One pass of the loop body, for i = 0..5.
hourly_slot(clock, base_temp, base_condition, i) ==
  LET seed_offset == base_temp % 7
  IN  [ hour  |-> hour_label(clock, i),
        temp  |-> base_temp + ((i + seed_offset) % 7) - 3,
        emoji |-> hourly_emoji(base_condition, i, seed_offset) ]

\* now = datetime.now() is read once; slot i is element i + 1 of the list.
generate_hourly_forecast(base_temp, base_condition) ==
  [ k \in 1..NumSlots |-> hourly_slot(now, base_temp, base_condition, k - 1) ]

(***************************************************************************)
(* outfit_logic_from_weather                                               *)
(***************************************************************************)
outfit(top, bottom, outer, footwear, accessories) ==
  [ top         |-> top,
    bottom      |-> bottom,
    outerwear   |-> outer,
    footwear    |-> footwear,
    accessories |-> accessories ]

\* str.strip(", "): drop the leading and trailing fragments made of the
\* characters "," and " ".
StripChars == { ",", " " }

RECURSIVE lstrip_sep(_)
lstrip_sep(s) ==
  IF s # << >> /\ Head(s) \in StripChars THEN lstrip_sep(Tail(s)) ELSE s

RECURSIVE rstrip_sep(_)
rstrip_sep(s) ==
  IF s # << >> /\ s[Len(s)] \in StripChars
  THEN rstrip_sep(SubSeq(s, 1, Len(s) - 1)) ELSE s

strip_sep(s) == rstrip_sep(lstrip_sep(s))

\* text.replace(old, new) if old in text else text.  The word the code
\* looks for, "Wool", is a fragment of its own wherever a text has it.
replace_fragment(text, old, new) ==
  [ k \in 1..Len(text) |-> IF text[k] = old THEN new ELSE text[k] ]

\* The four branches of the temperature / humidity rule (lines 218-243).
hot_humid_branch(temp, hum, precip) ==
  [ weight  |-> 2,
    primary |-> outfit(<<"Breathable cotton t-shirt">>, <<"Light cotton shorts">>,
                       <<"None">>, <<"Sandals">>, <<"Cap">>),
    alt1    |-> outfit(<<"Linen shirt">>, <<"Chino shorts">>, <<"Light scarf">>,
                       <<"Slip-ons">>, <<"Sunglasses">>),
    alt2    |-> outfit(<<"Moisture-wicking tee">>, <<"Athletic shorts">>,
                       <<"None">>, <<"Sport sandals">>,
                       IF precip > 30 THEN <<"Small umbrella">> ELSE <<"Cap">>),
    reason  |-> << "High temperature (", ToString(temp), " deg C) and humidity (",
                   ToString(hum), "%)", " ", "->", " ", "breathable fabrics" >> ]

warm_branch(temp) ==
  [ weight  |-> 2,
    primary |-> outfit(<<"Light long-sleeve tee">>, <<"Chinos">>,
                       <<"Light layer (cardigan)">>, <<"Sneakers">>, <<"Watch">>),
    alt1    |-> outfit(<<"Polo shirt">>, <<"Jeans">>, <<"Light jacket">>,
                       <<"Casual sneakers">>, <<"Sunglasses">>),
    alt2    |-> outfit(<<"Button-up shirt">>, <<"Tailored shorts">>,
                       <<"Light hoodie">>, <<"Loafers">>, <<"Cap">>),
    reason  |-> << "Moderate temperature (", ToString(temp), " deg C)", " ", "->",
                   " ", "light layers" >> ]

cool_branch(temp) ==
  [ weight  |-> 2,
    primary |-> outfit(<<"Long-sleeve shirt">>, <<"Jeans">>, <<"Light jacket">>,
                       <<"Sneakers">>, <<"Beanie (optional)">>),
    alt1    |-> outfit(<<"Thermal tee">>, <<"Corduroy pants">>, <<"Denim jacket">>,
                       <<"Ankle boots">>, <<"Scarf">>),
    alt2    |-> outfit(<<"Sweater">>, <<"Chinos">>, <<"Trench coat">>,
                       <<"Casual boots">>, <<"Watch">>),
    reason  |-> << "Cool temperature (", ToString(temp), " deg C)", " ", "->", " ",
                   "consider light outerwear" >> ]

cold_branch(temp) ==
  [ weight  |-> 3,
    primary |-> outfit(<<"Thermal top">>, <<"Warm trousers">>, <<"Warm coat">>,
                       <<"Boots">>, <<"Scarf & gloves">>),
    alt1    |-> outfit(<<"Wool", " sweater">>, <<"Jeans">>, <<"Puffer jacket">>,
                       <<"Insulated boots">>, <<"Beanie">>),
    alt2    |-> outfit(<<"Turtleneck">>, <<"Wool", " skirt + tights">>, <<"Overcoat">>,
                       <<"Knee boots">>, <<"Gloves">>),
    reason  |-> << "Cold temperature (", ToString(temp), " deg C)", " ", "->", " ",
                   "warm outerwear recommended" >> ]

\* The if / elif / elif / else that selects the branch.
base_recommendation(temp, hum, precip) ==
  IF temp >= 30 /\ hum >= 65 THEN hot_humid_branch(temp, hum, precip)
  ELSE IF 22 <= temp /\ temp < 30 THEN warm_branch(temp)
  ELSE IF 18 <= temp /\ temp < 22 THEN cool_branch(temp)
  ELSE cold_branch(temp)

\* The raincoat put on whatever the outerwear was.
rain_logic_always_raincoat(st, precip) ==
  IF precip > 40
  THEN [ matches |-> st.matches + 2,
         primary |-> [ st.primary EXCEPT
                         !.accessories = strip_sep(@ \o << ",", " ", "Umbrella" >>),
                         !.outerwear = << "Packable raincoat" >> ],
         reasons |-> Append(st.reasons,
                       << "High precipitation chance (", ToString(precip),
                          "%)", " ", "->", " ",
                          "carry umbrella or wear raincoat" >>) ]
  ELSE st

\* "Rain logic" (lines 245-252), on the state [matches, primary, reasons].
rain_logic(st, precip) ==
  IF precip > 40
  THEN LET accessories == strip_sep(st.primary.accessories
                                      \o << ",", " ", "Umbrella" >>)
           outerwear   == IF st.primary.outerwear = << "None" >>
                          THEN << "Packable raincoat" >>
                          ELSE st.primary.outerwear
       IN  [ matches |-> st.matches + 2,
             primary |-> [ st.primary EXCEPT !.accessories = accessories,
                                             !.outerwear = outerwear ],
             reasons |-> Append(st.reasons,
                           << "High precipitation chance (", ToString(precip),
                              "%)", " ", "->", " ",
                              "carry umbrella or wear raincoat" >>) ]
  ELSE st

\* The humidity test written hum >= 70.
humidity_bias_ge70(st, hum) ==
  IF hum >= 70
  THEN [ st EXCEPT !.matches = @ + 1,
                   !.reasons = Append(@,
                       << "High humidity (", ToString(hum), "%)", " ", "->", " ",
                          "prefer breathable fabrics and avoid heavy layers" >>) ]
  ELSE st

\* "Humidity bias" (lines 254-259).
humidity_bias(st, hum) ==
  IF hum > 70
  THEN [ matches |-> st.matches + 1,
         primary |-> [ st.primary EXCEPT
                         !.top = replace_fragment(@, "Wool",
                                                  "Breathable wool-blend") ],
         reasons |-> Append(st.reasons,
                       << "High humidity (", ToString(hum), "%)", " ", "->", " ",
                          "prefer breathable fabrics and avoid heavy layers" >>) ]
  ELSE st

\* "Wind consideration" (lines 261-265).
wind_consideration(st, wind) ==
  IF wind > 30
  THEN [ st EXCEPT !.matches = @ + 1,
                   !.reasons = Append(@,
                       << "Windy (", ToString(wind), " km/h)", " ", "->", " ",
                          "consider secure footwear and windproof layers" >>) ]
  ELSE st

Min(a, b) == IF a < b THEN a ELSE b

\* The bonus added without its cap.
confidence_score_uncapped(matches, temp) ==
  LET confidence == Min(100, 40 + matches * 12)
  IN  IF temp >= 30 \/ temp < 18 THEN confidence + 8 ELSE confidence

\* Lines 267-271.
confidence_score(matches, temp) ==
  LET confidence == Min(100, 40 + matches * 12)
  IN  IF temp >= 30 \/ temp < 18 THEN Min(100, confidence + 8) ELSE confidence

\* s.split("->")[0].strip(): the fragments before the arrow, without the
\* blank fragments at either end.
RECURSIVE before_arrow(_)
before_arrow(s) ==
  IF s = << >> \/ Head(s) = "->" THEN << >>
  ELSE << Head(s) >> \o before_arrow(Tail(s))

RECURSIVE strip_blank(_)
strip_blank(s) ==
  IF s # << >> /\ Head(s) = " " THEN strip_blank(Tail(s))
  ELSE IF s # << >> /\ s[Len(s)] = " "
    THEN strip_blank(SubSeq(s, 1, Len(s) - 1))
  ELSE s

\* " and ".join(parts)
RECURSIVE join_and(_)
join_and(parts) ==
  IF parts = << >> THEN << >>
  ELSE IF Len(parts) = 1 THEN Head(parts)
  ELSE Head(parts) \o << " and " >> \o join_and(Tail(parts))

\* Line 274.
reasoning_sentence(reasons) ==
  LET first2 == SubSeq(reasons, 1, Min(2, Len(reasons)))
      heads  == [ k \in 1..Len(first2) |-> strip_blank(before_arrow(first2[k])) ]
  IN  join_and(heads) \o << " -- choose accordingly." >>

\* The base returned in place of the alternate.
ensure_variation_returns_base(base, alt) ==
  IF base.footwear = alt.footwear /\ base.accessories = alt.accessories
  THEN [ alt EXCEPT !.footwear = @ \o << " (alt)" >> ]
  ELSE base

\* Lines 277-281.
ensure_variation(base, alt) ==
  IF base.footwear = alt.footwear /\ base.accessories = alt.accessories
  THEN [ alt EXCEPT !.footwear = @ \o << " (alt)" >> ]
  ELSE alt

outfit_logic_from_weather(weather) ==
  LET temp   == weather.temp_c
      hum    == weather.humidity
      precip == weather.precip_chance
      wind   == weather.wind_kmh
      base   == base_recommendation(temp, hum, precip)
      st0    == [ matches |-> base.weight,
                  primary |-> base.primary,
                  reasons |-> << base.reason >> ]
      st1    == rain_logic(st0, precip)
      st2    == humidity_bias(st1, hum)
      st3    == wind_consideration(st2, wind)
      alt1   == ensure_variation(st3.primary, base.alt1)
      alt2   == ensure_variation(st3.primary, base.alt2)
  IN  [ primary    |-> st3.primary,
        alternates |-> << alt1, alt2 >>,
        confidence |-> confidence_score(st3.matches, temp),
        reasoning  |-> reasoning_sentence(st3.reasons),
        bullets    |-> st3.reasons ]

(***************************************************************************)
(* The session: landing_page, ui_main and the wall clock.                  *)
(***************************************************************************)
Hours == 0..(HoursPerDay - 1)

NoCall == [ called |-> FALSE ]

\* landing_page: the Enter button, then st.rerun(), whose run of ui_main
\* reads the select box at its default, "".
EnterClick ==
  /\ page = "landing"
  /\ page' = "main"
  /\ forecast_generated' = FALSE
  /\ selected_city' = None
  /\ warning' = FALSE
  /\ UNCHANGED << light_mode, last_result, now, inp, out >>

\* ui_main, run because the select box changed to `selected`: the Forecast
\* button is not pressed in this run.
SelectCity(selected) ==
  /\ page = "main"
  /\ selected_city' = IF selected # "" THEN selected ELSE None
  /\ warning' = FALSE
  /\ UNCHANGED << page, forecast_generated, light_mode, last_result, now, inp, out >>

\* The primary outfit kept between runs and edited in place again.
forecast_result_shared_primary(city, later) ==
  LET weather       == synthesize_weather(city)
      fresh         == outfit_logic_from_weather(weather)
      outfit_result ==
        IF last_result # NoResult /\ weather.precip_chance > 40
        THEN [ fresh EXCEPT !.primary.accessories =
                 strip_sep(last_result.outfit.primary.accessories
                             \o << ",", " ", "Umbrella" >>) ]
        ELSE fresh
      hourly        == generate_hourly_forecast(weather.temp_c, weather.condition)
  IN  [ city    |-> city,
        weather |-> weather,
        outfit  |-> outfit_result,
        hourly  |-> hourly,
        time    |-> later ]

\* The result stored by lines 440-450; `later` is the second reading of the
\* clock, datetime.now().isoformat().
forecast_result(city, later) ==
  LET weather       == synthesize_weather(city)
      outfit_result == outfit_logic_from_weather(weather)
      hourly        == generate_hourly_forecast(weather.temp_c, weather.condition)
  IN  [ city    |-> city,
        weather |-> weather,
        outfit  |-> outfit_result,
        hourly  |-> hourly,
        time    |-> later ]

\* The test of the selected city left out.
ForecastClick_unguarded ==
  /\ page = "main"
  /\ \E later \in { now, add_hours(now, 1) } :
       /\ last_result' = forecast_result(selected_city, later)
       /\ forecast_generated' = TRUE
       /\ warning' = FALSE
       /\ now' = later
  /\ UNCHANGED << page, selected_city, light_mode, inp, out >>

\* ui_main, run because "Forecast my outfit" was pressed: the select box
\* holds what it held.
ForecastClick ==
  /\ page = "main"
  /\ IF selected_city = None
     THEN /\ warning' = TRUE
          /\ UNCHANGED << last_result, forecast_generated, now >>
     ELSE \E later \in { now, add_hours(now, 1) } :
            /\ last_result' = forecast_result(selected_city, later)
            /\ forecast_generated' = TRUE
            /\ warning' = FALSE
            /\ now' = later
  /\ UNCHANGED << page, selected_city, light_mode, inp, out >>

\* An hour passes.
Tick ==
  /\ now' = add_hours(now, 1)
  /\ UNCHANGED << session, inp, out >>

Init ==
  /\ init_session_state
  /\ warning = FALSE
  /\ now \in Hours
  /\ inp = NoCall
  /\ out = NoCall

Next ==
  \/ EnterClick
  \/ \E selected \in {""} \cup Cities : SelectCity(selected)
  \/ ForecastClick
  \/ Tick

Spec == Init /\ [][Next]_vars

(***************************************************************************)
(* The rules on every reading: the condition selection of                  *)
(* synthesize_weather, then outfit_logic_from_weather.                     *)
(***************************************************************************)
Near(thresholds) == UNION { (t - Margin)..(t + Margin) : t \in thresholds }

\* The thresholds the rules compare with, the ends of the synthesized
\* ranges, and the readings of the documented scenarios.
TempValues == Near({5, 18, 20, 22, 30}) \cup {10, 12, 35, 37}

HumidityValues == Near({60, 65, 70, 80}) \cup {30, 50, 100}

PrecipValues == Near({25, 30, 40, 60}) \cup {0, 10, 50, 100}

WindValues == Near({25, 30}) \cup {5, 10, 40}

Readings ==
  [ temp_c : TempValues, humidity : HumidityValues,
    precip_chance : PrecipValues, wind_kmh : WindValues ]

RuleInit ==
  /\ init_session_state
  /\ warning = FALSE
  /\ now = 0
  /\ inp \in Readings
  /\ out = NoCall

CallSelectCondition ==
  /\ out = NoCall
  /\ out' = [ weather |->
                [ temp_c        |-> inp.temp_c,
                  humidity      |-> inp.humidity,
                  precip_chance |-> inp.precip_chance,
                  wind_kmh      |-> inp.wind_kmh,
                  condition     |-> select_condition(inp.temp_c, inp.humidity,
                                       inp.precip_chance, inp.wind_kmh) ] ]
  /\ UNCHANGED << session, now, inp >>

CallOutfitLogic ==
  /\ DOMAIN out = {"weather"}
  /\ out' = [ weather |-> out.weather,
              outfit  |-> outfit_logic_from_weather(out.weather) ]
  /\ UNCHANGED << session, now, inp >>

RuleNext == CallSelectCondition \/ CallOutfitLogic

RuleSpec == RuleInit /\ [][RuleNext]_vars

(***************************************************************************)
(* synthesize_weather on seeds.                                            *)
(***************************************************************************)
CapitalSeeds == { city_to_seed(CAPITALS[i]) : i \in 1..Len(CAPITALS) }

\* The low seeds under each of four high halves (0 holds the seed of the
\* empty location), the seeds of the capitals, and the largest seed.
Seeds ==
  [ hi : {0, Pow2(15) - 1, Pow2(15), Pow2(16) - 1}, lo : 0..MaxSeedLo ]
    \cup CapitalSeeds
    \cup { [ hi |-> Pow2(16) - 1, lo |-> Pow2(16) - 1 ] }

SeedInit ==
  /\ init_session_state
  /\ warning = FALSE
  /\ now = 0
  /\ inp \in Seeds
  /\ out = NoCall

CallWeatherFromSeed ==
  /\ out = NoCall
  /\ out' = weather_from_seed(inp)
  /\ UNCHANGED << session, now, inp >>

SeedNext == CallWeatherFromSeed

SeedSpec == SeedInit /\ [][SeedNext]_vars

(***************************************************************************)
(* generate_hourly_forecast on every base reading and hour.                *)
(***************************************************************************)
\* A condition key that WEATHER_EMOJI does not hold: the function takes any
\* string.
UNREGISTERED_CONDITION == "hail"

HourlyInit ==
  /\ init_session_state
  /\ warning = FALSE
  /\ now \in Hours
  /\ inp \in [ base_temp : 12..37,
               base_condition : Conditions \cup { UNREGISTERED_CONDITION } ]
  /\ out = NoCall

CallHourlyForecast ==
  /\ out = NoCall
  /\ out' = generate_hourly_forecast(inp.base_temp, inp.base_condition)
  /\ UNCHANGED << session, now, inp >>

HourlyNext == CallHourlyForecast

HourlySpec == HourlyInit /\ [][HourlyNext]_vars

(***************************************************************************)
(* Properties.                                                             *)
(***************************************************************************)
HasWeather == "weather" \in DOMAIN out

HasOutfit == "outfit" \in DOMAIN out

BandNames == {"hot_humid", "warm", "cool", "cold"}

BranchOf(band, w) ==
  CASE band = "hot_humid" -> hot_humid_branch(w.temp_c, w.humidity, w.precip_chance)
    [] band = "warm"      -> warm_branch(w.temp_c)
    [] band = "cool"      -> cool_branch(w.temp_c)
    [] band = "cold"      -> cold_branch(w.temp_c)

\* The bands whose triad and note the recommendation r for the reading w
\* carries.
SelectedBands(w, r) ==
  { band \in BandNames :
      LET b == BranchOf(band, w)
      IN  /\ r.bullets[1] = b.reason
          /\ r.primary.bottom = b.primary.bottom
          /\ r.primary.footwear = b.primary.footwear
          /\ Len(r.alternates) = 2
          /\ r.alternates[1].top = b.alt1.top
          /\ r.alternates[1].accessories = b.alt1.accessories
          /\ r.alternates[2].top = b.alt2.top
          /\ r.alternates[2].accessories = b.alt2.accessories }

\* The weight of the modifier rules that fire on the reading w.
ModifierWeight(w) ==
  (IF w.precip_chance > 40 THEN 2 ELSE 0)
    + (IF w.humidity > 70 THEN 1 ELSE 0)
    + (IF w.wind_kmh > 30 THEN 1 ELSE 0)

\* The weight of the band of r, read from its first note.
SelectedWeight(r) == IF r.bullets[1][1] = "Cold temperature (" THEN 3 ELSE 2

\* C1: for every reading with temperature in [12,37] and humidity in
\* [30,100] exactly one band triad is selected: hot-humid iff temperature
\* >= 30 and humidity >= 65, warm iff 22 <= temperature < 30, cool iff
\* 18 <= temperature < 22, and cold (Thermal top, Warm coat, weight 3, note
\* "Cold temperature") iff temperature < 18; the other bands weigh 2.
C1_BandSelection ==
  (HasOutfit /\ inp.temp_c \in 12..37 /\ inp.humidity \in 30..100) =>
    LET w   == out.weather
        r   == out.outfit
        t   == w.temp_c
        sel == SelectedBands(w, r)
    IN  /\ Cardinality(sel) = 1
        /\ ("hot_humid" \in sel) <=> (t >= 30 /\ w.humidity >= 65)
        /\ ("warm" \in sel) <=> (22 <= t /\ t < 30)
        /\ ("cool" \in sel) <=> (18 <= t /\ t < 22)
        /\ ("cold" \in sel) <=> (t < 18)
        /\ ("cold" \in sel) =>
              /\ r.primary.top = << "Thermal top" >>
              /\ r.primary.outerwear = << "Warm coat" >>
              /\ r.bullets[1][1] = "Cold temperature ("
        /\ \A band \in sel :
              /\ BranchOf(band, w).weight = (IF band = "cold" THEN 3 ELSE 2)
              /\ r.confidence =
                   confidence_score(BranchOf(band, w).weight + ModifierWeight(w), t)

\* The entries of the ordered decision list, as <<predicate, outcome>>.
DecisionList(t, h, p, w) ==
  << << p > 60 /\ w > 25, "storm"  >>,
     << p > 60,           "rain"   >>,
     << p > 25 /\ h > 60, "rain"   >>,
     << p > 25,           "partly" >>,
     << t <= 5,           "snow"   >>,
     << h > 80 /\ t < 20, "mist"   >>,
     << t >= 30,          "clear"  >>,
     << t >= 22,          "partly" >>,
     << TRUE,             "cloudy" >> >>

FirstMatch(list) ==
  LET first == CHOOSE k \in 1..Len(list) :
                 list[k][1] /\ \A j \in 1..(k - 1) : ~list[j][1]
  IN  list[first][2]

\* C2: for every combination of temperature, humidity, precipitation
\* chance and wind the condition produced is one condition, the outcome of
\* the first matching entry of the ordered decision list.
C2_ConditionIsFirstMatch ==
  HasWeather =>
    /\ out.weather.condition \in Conditions
    /\ out.weather.condition =
         FirstMatch(DecisionList(inp.temp_c, inp.humidity,
                                 inp.precip_chance, inp.wind_kmh))

\* A reading that only the sixth entry matches has been classified.
C2_Witness ==
  /\ HasWeather
  /\ inp.precip_chance <= 25 /\ inp.humidity > 80 /\ inp.temp_c < 20
  /\ inp.temp_c > 5
  /\ out.weather.condition = "mist"

\* The seed as the signed 32-bit number with the same bits.
SignedSeed(seed) ==
  IF seed.hi < Pow2(15) THEN seed.hi * Pow2(16) + seed.lo
  ELSE (seed.hi - Pow2(16)) * Pow2(16) + seed.lo

\* seed % m and (seed >> k) % m from the signed number: the seed is
\* SignedSeed + 2^32 when its top bit is set.
UnsignedMod(seed, m) ==
  IF seed.hi < Pow2(15) THEN SignedSeed(seed) % m
  ELSE ((SignedSeed(seed) % m) + ((Pow2(16) % m) * (Pow2(16) % m))) % m

UnsignedShiftMod(seed, k, m) ==
  IF seed.hi < Pow2(15) THEN (SignedSeed(seed) \div Pow2(k)) % m
  ELSE ((SignedSeed(seed) \div Pow2(k)) + Pow2(32 - k)) % m

\* C3: for every seed in 0..2^32-1 the reading has temperatureC in
\* [12,37], humidityPct in [30,100], precipChancePct in [0,100] and windKmh
\* in [5,40], computed as 12 + seed mod 26, 30 + (seed >> 3) mod 71,
\* (seed >> 6) mod 101 and 5 + (seed >> 10) mod 36.
C3_RangesAndFormulas ==
  (out # NoCall) =>
    /\ out.temp_c \in 12..37
    /\ out.humidity \in 30..100
    /\ out.precip_chance \in 0..100
    /\ out.wind_kmh \in 5..40
    /\ out.temp_c = 12 + UnsignedMod(inp, 26)
    /\ out.humidity = 30 + UnsignedShiftMod(inp, 3, 71)
    /\ out.precip_chance = UnsignedShiftMod(inp, 6, 101)
    /\ out.wind_kmh = 5 + UnsignedShiftMod(inp, 10, 36)

\* The largest seed, 2^32 - 1, has been synthesized.
C3_Witness ==
  /\ out # NoCall
  /\ inp = [ hi |-> Pow2(16) - 1, lo |-> Pow2(16) - 1 ]

\* C4: the confidence is min(100, min(100, 40 + 12 * W) + B), with W the
\* weight of the selected band plus 2 if precipChance > 40, 1 if humidity >
\* 70 and 1 if wind > 30, and B = 8 if temperature >= 30 or temperature <
\* 18 and 0 otherwise; so it is an integer in [0,100].
C4_Confidence ==
  HasOutfit =>
    LET w == out.weather
        W == SelectedWeight(out.outfit) + ModifierWeight(w)
        B == IF w.temp_c >= 30 \/ w.temp_c < 18 THEN 8 ELSE 0
    IN  /\ out.outfit.confidence = Min(100, Min(100, 40 + 12 * W) + B)
        /\ out.outfit.confidence \in 0..100

\* A reading whose score reaches the cap before the bonus is added.
C4_Witness ==
  /\ HasOutfit
  /\ inp.temp_c < 18
  /\ 40 + 12 * (SelectedWeight(out.outfit) + ModifierWeight(out.weather)) > 100
  /\ out.outfit.confidence = 100

\* C5: the recommendation has exactly 2 alternates, and each differs from
\* the final primary outfit in footwear or in accessories.
C5_AlternatesDiffer ==
  HasOutfit =>
    /\ Len(out.outfit.alternates) = 2
    /\ \A k \in 1..Len(out.outfit.alternates) :
         \/ out.outfit.alternates[k].footwear # out.outfit.primary.footwear
         \/ out.outfit.alternates[k].accessories # out.outfit.primary.accessories

\* A recommendation whose primary the precipitation modifier has edited.
C5_Witness ==
  /\ HasOutfit
  /\ inp.precip_chance > 40
  /\ out.outfit.primary.accessories = << "Cap", ",", " ", "Umbrella" >>
  /\ Len(out.outfit.alternates) = 2

Scenario35 ==
  [ temp_c |-> 35, humidity |-> 70, precip_chance |-> 10, wind_kmh |-> 10 ]

HumidityNote(hum) ==
  << "High humidity (", ToString(hum), "%)", " ", "->", " ",
     "prefer breathable fabrics and avoid heavy layers" >>

\* C6, as stated: on temperature 35, humidity 70, precipitation 10, wind 10
\* the hot-humid band is selected, the humidity modifier fires (its note is
\* added, the top is unchanged) and the confidence is 84.
C6_ScenarioAsStated ==
  (HasOutfit /\ inp = Scenario35) =>
    /\ SelectedBands(out.weather, out.outfit) = {"hot_humid"}
    /\ \E k \in 1..Len(out.outfit.bullets) :
         out.outfit.bullets[k] = HumidityNote(70)
    /\ out.outfit.primary.top = << "Breathable cotton t-shirt" >>
    /\ out.outfit.confidence = 84

\* C6, amended: on that reading the hot-humid band is selected, the
\* humidity modifier does not fire (70 is not above 70), so the band's note
\* is the only note, the top is unchanged, and the confidence is 72.
C6_ScenarioAmended ==
  (HasOutfit /\ inp = Scenario35) =>
    /\ SelectedBands(out.weather, out.outfit) = {"hot_humid"}
    /\ out.outfit.bullets = << hot_humid_branch(35, 70, 10).reason >>
    /\ out.outfit.primary.top = << "Breathable cotton t-shirt" >>
    /\ out.outfit.confidence = 72

C6_Witness == HasOutfit /\ inp = Scenario35 /\ out.outfit.confidence = 72

DigitValue(c) == CHOOSE d \in 0..9 : DigitChars[d + 1] = c

\* The number a label starts with, and the hour of the day the label names.
LabelNumber(label) ==
  IF label[2] = " " THEN DigitValue(label[1])
  ELSE 10 * DigitValue(label[1]) + DigitValue(label[2])

LabelSuffix(label) == SubSeq(label, Len(label) - 2, Len(label))

LabelHour(label) ==
  (LabelNumber(label) % 12) + (IF label[Len(label) - 1] = "P" THEN 12 ELSE 0)

\* A 12-hour label without a leading zero: "7 PM", "12 AM".
WellFormedLabel(label) ==
  /\ Len(label) \in {4, 5}
  /\ \A k \in 1..(Len(label) - 3) : label[k] \in { DigitChars[d] : d \in 1..10 }
  /\ label[1] # "0"
  /\ LabelNumber(label) \in 1..12
  /\ LabelSuffix(label) \in { << " ", "A", "M" >>, << " ", "P", "M" >> }

\* C7: generate_hourly_forecast returns exactly 6 slots in the order of the
\* hour offset; slot i carries the 12-hour, no-leading-zero, AM/PM label of
\* now + i hours, so each label is one hour after the previous one.
C7_SixHourlyLabels ==
  (out # NoCall) =>
    /\ Len(out) = 6
    /\ \A i \in 0..5 :
         /\ WellFormedLabel(out[i + 1].hour)
         /\ LabelHour(out[i + 1].hour) = (now + i) % 24
    /\ \A i \in 1..5 :
         LabelHour(out[i + 1].hour) = (LabelHour(out[i].hour) + 1) % 24

\* A forecast made at 9 PM, whose labels pass midnight.
C7_Witness ==
  /\ out # NoCall
  /\ now = 21
  /\ out[3].hour = << "1", "1", " ", "P", "M" >>
  /\ out[4].hour = << "1", "2", " ", "A", "M" >>
  /\ out[5].hour = << "1", " ", "A", "M" >>

\* What a stored result holds besides its city and the time it was stored.
ResultCore(result) ==
  [ weather |-> result.weather, outfit |-> result.outfit, hourly |-> result.hourly ]

\* The pipeline on the location city at the clock value clock.
PipelineAt(city, clock) ==
  LET weather == synthesize_weather(city)
  IN  [ weather |-> weather,
        outfit  |-> outfit_logic_from_weather(weather),
        hourly  |-> [ k \in 1..NumSlots |->
                        hourly_slot(clock, weather.temp_c, weather.condition, k - 1) ] ]

\* The stored result is the pipeline's value on its city and on the clock
\* value read for the hourly forecast, whatever the session held before.
C8_FunctionOfInputs ==
  (last_result # NoResult) =>
    \E clock \in Hours :
      /\ last_result.time \in { clock, (clock + 1) % 24 }
      /\ ResultCore(last_result) = PipelineAt(last_result.city, clock)

\* A run that follows a run on the same city at the same hour stores the
\* same weather, recommendation and hourly forecast.
C8_SameInputsSameResult ==
  ( /\ last_result # NoResult
    /\ last_result' # NoResult
    /\ last_result'.city = last_result.city
    /\ last_result'.hourly[1].hour = last_result.hourly[1].hour )
  => ResultCore(last_result') = ResultCore(last_result)

C9_StoredCity ==
  /\ (last_result # NoResult) =>
        /\ last_result.city \in Cities
        /\ last_result.city \notin { None, "" }
  /\ forecast_generated => (last_result # NoResult)

C9_EmptyClick ==
  (ForecastClick /\ selected_city = None) =>
    (warning' /\ UNCHANGED << last_result, forecast_generated >>)

\* C9: a Forecast click with no city selected runs no synthesis and leaves
\* last_result and forecast_generated unchanged, so every stored result
\* has a non-empty city.
C9_NoSynthesisWithoutCity ==
  [](C9_StoredCity) /\ [][C9_EmptyClick]_vars

\* Forecast was clicked with no city selected while a result was stored.
C9_Witness ==
  /\ warning
  /\ selected_city = None
  /\ forecast_generated
  /\ last_result # NoResult

Bit(n, k) == (n \div Pow2(k)) % 2

FlipHalf(n, k) == IF Bit(n, k) = 0 THEN n + Pow2(k) ELSE n - Pow2(k)

\* The seed that differs from seed in bit k alone, 0 <= k <= 31.
FlipBit(seed, k) ==
  IF k < 16 THEN [ seed EXCEPT !.lo = FlipHalf(@, k) ]
  ELSE [ seed EXCEPT !.hi = FlipHalf(@, k - 16) ]

NumericFields == { "temp_c", "humidity", "precip_chance", "wind_kmh" }

ChangedFields(w1, w2) == { f \in NumericFields : w1[f] # w2[f] }

\* C10, as stated: the four numeric fields come from pairwise disjoint
\* bit-slices of the seed: two seeds that differ in exactly one bit differ
\* in at most one of the four fields.
C10_OneBitOneField ==
  (out # NoCall) =>
    \A k \in 0..31 :
      Cardinality(ChangedFields(out, weather_from_seed(FlipBit(inp, k)))) <= 1

\* C10, amended: the fields come from overlapping windows of the seed
\* (temperature from every bit, humidity from bit 3 up, precipitation
\* chance from bit 6 up, wind from bit 10 up), so they do not vary
\* independently: two seeds that differ in exactly one bit k agree on every
\* field whose shift is above k.
C10_FieldsAboveBitUnchanged ==
  (out # NoCall) =>
    \A k \in 0..31 :
      LET changed == ChangedFields(out, weather_from_seed(FlipBit(inp, k)))
      IN  /\ (k < 3) => changed \subseteq {"temp_c"}
          /\ (k < 6) => changed \subseteq {"temp_c", "humidity"}
          /\ (k < 10) => changed \subseteq {"temp_c", "humidity", "precip_chance"}

\* A seed for which one bit below the wind's window changes the three
\* other fields and leaves the wind.
C10_Witness ==
  /\ out # NoCall
  /\ \E k \in 6..9 :
       ChangedFields(out, weather_from_seed(FlipBit(inp, k)))
         = {"temp_c", "humidity", "precip_chance"}

\* The band a recommendation was built from, read from how its first note
\* begins.
NotedBand(r) ==
  CASE r.bullets[1][1] = "High temperature ("     -> "hot_humid"
    [] r.bullets[1][1] = "Moderate temperature (" -> "warm"
    [] r.bullets[1][1] = "Cool temperature ("     -> "cool"
    [] r.bullets[1][1] = "Cold temperature ("     -> "cold"

\* How many fragments of text are the fragment word.
Occurrences(text, word) == Cardinality({ k \in 1..Len(text) : text[k] = word })

\* C11: for every reading with precipChance > 40 the primary accessories
\* are the selected band's accessories followed by ", Umbrella" (Umbrella
\* exactly once) and the primary outerwear becomes "Packable raincoat" only
\* if the band's outerwear was "None", any other outerwear being kept; for
\* precipChance <= 40 the primary's accessories and outerwear are the
\* band's.
C11_PrecipitationModifier ==
  HasOutfit =>
    LET r    == out.outfit
        band == BranchOf(NotedBand(r), out.weather).primary
    IN  IF inp.precip_chance > 40
        THEN /\ r.primary.accessories = band.accessories \o << ",", " ", "Umbrella" >>
             /\ Occurrences(r.primary.accessories, "Umbrella") = 1
             /\ (band.outerwear = << "None" >>) =>
                   r.primary.outerwear = << "Packable raincoat" >>
             /\ (band.outerwear # << "None" >>) =>
                   r.primary.outerwear = band.outerwear
        ELSE /\ r.primary.accessories = band.accessories
             /\ r.primary.outerwear = band.outerwear

\* A rainy cold reading: the umbrella is added and the warm coat is kept.
C11_Witness ==
  /\ HasOutfit
  /\ inp.precip_chance > 40
  /\ NotedBand(out.outfit) = "cold"
  /\ out.outfit.primary.accessories = << "Scarf & gloves", ",", " ", "Umbrella" >>
  /\ out.outfit.primary.outerwear = << "Warm coat" >>

\* The symbol of slot i for the base condition and offset, rule by rule.
ExpectedSymbol(base_condition, i, offset) ==
  IF base_condition \in {"rain", "storm"} /\ i % 2 = 0
    THEN "cloud with rain"
  ELSE IF base_condition = "clear"
    THEN (IF (i + offset) % 5 < 3 THEN "sun" ELSE "sun behind cloud")
  ELSE CASE base_condition = "partly" -> "sun behind cloud"
         [] base_condition = "cloudy" -> "cloud"
         [] base_condition = "rain"   -> "cloud with rain"
         [] base_condition = "storm"  -> "cloud with lightning and rain"
         [] base_condition = "snow"   -> "snowflake"
         [] base_condition = "mist"   -> "fog"
         [] OTHER                     -> "sun behind small cloud"

\* C12: with offset = baseTemperature mod 7, slot i shows the rain symbol
\* if baseCondition is rain or storm and i is even; otherwise, if
\* baseCondition is clear, the clear symbol when (i + offset) mod 5 < 3 and
\* the partly-cloudy symbol when not; otherwise the symbol registered for
\* baseCondition (the storm symbol on the odd slots of a storm), and the
\* generic mild symbol for an unregistered condition.
C12_HourlySymbols ==
  (out # NoCall) =>
    \A i \in 0..5 :
      out[i + 1].emoji =
        ExpectedSymbol(inp.base_condition, i, inp.base_temp % 7)

\* A stormy base: rain on the even slots, the storm symbol on the odd ones.
C12_Witness ==
  /\ out # NoCall
  /\ inp.base_condition = "storm"
  /\ \A i \in 0..5 :
       out[i + 1].emoji = IF i % 2 = 0 THEN "cloud with rain"
                          ELSE "cloud with lightning and rain"

\* C13: for every seed synthesize_weather never produces "snow": the
\* temperature is at least 12, so the "temperature <= 5" entry never
\* matches, and the condition is one of clear, partly, cloudy, rain, storm
\* and mist.
C13_NeverSnow ==
  (out # NoCall) =>
    /\ out.temp_c >= 12
    /\ ~(out.temp_c <= 5)
    /\ out.condition # "snow"
    /\ out.condition \in {"clear", "partly", "cloudy", "rain", "storm", "mist"}

\* A seed with the lowest temperature and little precipitation: the
\* selection reaches the snow test, which fails, and goes on.
C13_Witness ==
  /\ out # NoCall
  /\ out.precip_chance <= 25
  /\ out.temp_c = 12
  /\ out.condition \in {"mist", "cloudy"}

====
